---------------------------- MODULE Spec2Model ----------------------------
(***************************************************************************)
(* A model of the learning chatbot: the Statement value object, the JSON   *)
(* file storage adapter (find / filter / update), the logic adapters and   *)
(* the ChatBot orchestrator of the NLP-based snapshot (src/chatbot.js      *)
(* lines 1-178).                                                           *)
(*                                                                         *)
(* JavaScript values.  A string is the sequence of its characters.  The    *)
(* non-string values a text field can hold are one-token sequences that no *)
(* string equals: NullValue (null or undefined) and NumberValue (a         *)
(* number).  An optional object is a sequence of length 0 (null) or 1.     *)
(* Confidences are counted in tenths: 0.9 is 9, 0.4 is 4, -1 is -10.       *)
(***************************************************************************)
EXTENDS Integers, Sequences, FiniteSets, TLC

VARIABLES
    store,               \* JsonFileStorageAdapter._data.statements
    previous_statement,  \* ChatBot.previous_statement (<<>> is null)
    nlpIsReady,          \* NlpProcessor.isReady
    nlpReady,            \* ChatBot.nlpReady
    logicAdapters,       \* ChatBot.logicAdapters (fixed at construction)
    call,                \* the last completed call: its arguments and result
    tracing,             \* whether the calls are being recorded in trace
    trace,               \* the calls made so far, when tracing
    file,                \* what is at JsonFileStorageAdapter.databasePath
    storage,             \* JsonFileStorageAdapter: _data set, _loadPromise, history
    tasks                \* the calls in flight, each at its last await

vars == <<store, previous_statement, nlpIsReady, nlpReady, logicAdapters, call,
          tracing, trace, file, storage, tasks>>

---------------------------------------------------------------------------
(* JavaScript values *)

NullValue == <<"<null>">>
NumberValue == <<"<number>">>
NullIntent == "<null>"

IsString(v) == v \notin {NullValue, NumberValue}

\* JavaScript truthiness of a text value: null, undefined and '' are falsy.
Truthy(v) == v \notin {NullValue, <<>>}

\* a || b
OrElse(a, b) == IF Truthy(a) THEN a ELSE b

None == <<>>
Some(x) == <<x>>

---------------------------------------------------------------------------
(* String.prototype.toLowerCase and String.prototype.trim *)

UpperCase == <<"A","B","C","D","E","F","G","H","I","J","K","L","M",
               "N","O","P","Q","R","S","T","U","V","W","X","Y","Z">>
LowerCase == <<"a","b","c","d","e","f","g","h","i","j","k","l","m",
               "n","o","p","q","r","s","t","u","v","w","x","y","z">>

UpperSet == {UpperCase[i] : i \in 1..Len(UpperCase)}

LowerOf == [c \in UpperSet |->
               LowerCase[CHOOSE i \in 1..Len(UpperCase) : UpperCase[i] = c]]

LowerChar(c) == IF c \in UpperSet THEN LowerOf[c] ELSE c

ToLowerCase(s) == [i \in 1..Len(s) |-> LowerChar(s[i])]

IsSpace(c) == c \in {" ", "\t", "\n"}

RECURSIVE TrimStart(_)
TrimStart(s) ==
    IF s # <<>> /\ IsSpace(Head(s)) THEN TrimStart(Tail(s)) ELSE s

RECURSIVE TrimEnd(_)
TrimEnd(s) ==
    IF s # <<>> /\ IsSpace(s[Len(s)])
    THEN TrimEnd(SubSeq(s, 1, Len(s) - 1))
    ELSE s

Trim(s) == TrimEnd(TrimStart(s))

---------------------------------------------------------------------------
(* The texts and intents the model draws its inputs from *)

Hello == <<"H","e","l","l","o">>
hello == <<"h","e","l","l","o">>
HowAreYou == <<"H","o","w"," ","a","r","e"," ","y","o","u">>
howareyou == <<"h","o","w"," ","a","r","e"," ","y","o","u">>
PaddedHello == <<" ","h","e","l","l","o"," ">>
Hi == <<"H","i">>
hi == <<"h","i">>
Blank == <<" ">>
PleaseProvideInput ==
    <<"P","l","e","a","s","e"," ","p","r","o","v","i","d","e"," ",
      "s","o","m","e"," ","i","n","p","u","t",".">>

StartingUpText ==
    <<"I","'","m"," ","s","t","i","l","l"," ","s","t","a","r","t","i","n",
      "g"," ","u","p",","," ","p","l","e","a","s","e"," ","w","a","i","t",
      " ","a"," ","m","o","m","e","n","t",".">>
NotSurePrefix ==
    <<"I","'","m"," ","n","o","t"," ","s","u","r","e"," ","h","o","w"," ",
      "t","o"," ","r","e","s","p","o","n","d"," ","t","o"," ","'">>
NotSureSuffix == <<"'",".">>
UnderstandPrefix ==
    <<"I"," ","u","n","d","e","r","s","t","a","n","d"," ","y","o","u","'",
      "r","e"," ","a","s","k","i","n","g"," ","a","b","o","u","t"," ","'">>
UnderstandMiddle ==
    <<"'",","," ","b","u","t"," ","I"," ","d","o","n","'","t"," ","h","a",
      "v","e"," ","a"," ","s","p","e","c","i","f","i","c"," ","a","n","s",
      "w","e","r"," ","f","o","r"," ","'">>
UnderstandSuffix == <<"'"," ","y","e","t",".">>
TheCurrentTimeIs ==
    <<"T","h","e"," ","c","u","r","r","e","n","t"," ","t","i","m","e"," ",
      "i","s"," ">>
TenAM == <<"1","0",":","0","0"," ","A","M">>
TenPM == <<"1","0",":","0","0"," ","P","M">>
EchoOfTime ==
    <<"t","h","e"," ","c","u","r","r","e","n","t"," ","t","i","m","e"," ",
      "i","s"," ","1","0",":","0","0"," ","a","m",".">>

DEFAULT_INTENT == "unknown"

---------------------------------------------------------------------------
(* Statement (src/statement.js) *)

\* Date.now(): the clock reading when a Statement is constructed
Now == 2

\* config.timestamp || Date.now()
TimestampOf(config) ==
    IF "timestamp" \in DOMAIN config /\ config.timestamp # 0
    THEN config.timestamp ELSE Now

\* new Statement(config) with an object config; a field the config leaves
\* out is NullValue / NullIntent / 0.
StatementFromObject(config) ==
    [ text           |-> OrElse(config.text, <<>>),
      in_response_to |-> OrElse(config.in_response_to, NullValue),
      conversation   |-> "default",
      confidence     |-> config.confidence,
      timestamp      |-> TimestampOf(config),
      intent         |-> IF config.intent = "" THEN NullIntent ELSE config.intent,
      entities       |-> <<>> ]

\* new Statement(text) with a string
StatementFromString(text) ==
    [ text           |-> text,
      in_response_to |-> NullValue,
      conversation   |-> "default",
      confidence     |-> 0,
      timestamp      |-> Now,
      intent         |-> NullIntent,
      entities       |-> <<>> ]

Config(text, in_response_to, intent, confidence) ==
    [ text |-> text, in_response_to |-> in_response_to,
      intent |-> intent, confidence |-> confidence ]

serializeWithConfidence(s) ==
    [ text           |-> s.text,
      in_response_to |-> s.in_response_to,
      conversation   |-> s.conversation,
      confidence     |-> s.confidence,
      timestamp      |-> s.timestamp,
      intent         |-> s.intent,
      entities       |-> s.entities ]

\* Statement.serialize: confidence is left out
serialize(s) ==
    [ text           |-> s.text,
      in_response_to |-> s.in_response_to,
      conversation   |-> s.conversation,
      timestamp      |-> s.timestamp,
      intent         |-> s.intent,
      entities       |-> s.entities ]

\* Statement.deserialize(data) for an object read from the store
deserialize(data) ==
    [ text           |-> OrElse(data.text, <<>>),
      in_response_to |-> OrElse(data.in_response_to, NullValue),
      conversation   |-> data.conversation,
      confidence     |-> IF "confidence" \in DOMAIN data THEN data.confidence ELSE 0,
      timestamp      |-> TimestampOf(data),
      intent         |-> IF data.intent = "" THEN NullIntent ELSE data.intent,
      entities       |-> data.entities ]

---------------------------------------------------------------------------
(* JsonFileStorageAdapter (src/unnamed/part_001) *)

\* Array.prototype.findIndex on the lower-cased text; 0 stands for -1
FindIndexCaseSensitive(statements, textToCompare) ==
    LET hits == { i \in 1..Len(statements) : statements[i].text = textToCompare }
    IN  IF hits = {} THEN 0
        ELSE CHOOSE i \in hits : \A j \in hits : i <= j

FindIndex(statements, textToCompare) ==
    LET hits == { i \in 1..Len(statements) :
                    /\ IsString(statements[i].text)
                    /\ ToLowerCase(statements[i].text) = textToCompare }
    IN  IF hits = {} THEN 0
        ELSE CHOOSE i \in hits : \A j \in hits : i <= j

MergeKeepExisting(existing, incoming) ==
    [f \in (DOMAIN existing) \cup (DOMAIN incoming) |->
        IF f \in DOMAIN existing THEN existing[f] ELSE incoming[f]]

\* { ...existing, ...incoming }
Merge(existing, incoming) ==
    [f \in (DOMAIN existing) \cup (DOMAIN incoming) |->
        IF f \in DOMAIN incoming THEN incoming[f] ELSE existing[f]]

StorageFindExact(statements, queryText) ==
    LET i == FindIndexCaseSensitive(statements, queryText)
    IN  IF ~Truthy(queryText) THEN None
        ELSE IF i = 0 THEN None ELSE Some(statements[i])

\* find(query): the first record whose text matches, or null
StorageFind(statements, queryText) ==
    LET queryTextLower ==
            IF IsString(queryText) THEN ToLowerCase(queryText) ELSE NullValue
        i == FindIndex(statements, queryTextLower)
    IN  IF ~Truthy(queryTextLower) THEN None
        ELSE IF i = 0 THEN None ELSE Some(statements[i])

StorageUpdateFresh(statements, statement) ==
    [ statements    |-> << serialize(statement) >>,
      ret           |-> Some(serialize(statement)),
      existingIndex |-> 0 ]

\* update(statement): the new array, the returned data and existingIndex
StorageUpdate(statements, statement) ==
    LET statementData == serialize(statement)
        textToCompare ==
            IF IsString(statementData.text)
            THEN ToLowerCase(statementData.text) ELSE NullValue
        existingIndex ==
            IF textToCompare # NullValue
            THEN FindIndex(statements, textToCompare) ELSE 0
    IN  IF existingIndex = 0
        THEN IF textToCompare # NullValue
             THEN [ statements    |-> Append(statements, statementData),
                    ret           |-> Some(statementData),
                    existingIndex |-> 0 ]
             ELSE [ statements    |-> statements,
                    ret           |-> None,
                    existingIndex |-> 0 ]
        ELSE LET merged == Merge(statements[existingIndex], statementData)
             IN  [ statements    |-> [statements EXCEPT ![existingIndex] = merged],
                   ret           |-> Some(merged),
                   existingIndex |-> existingIndex ]

\* filter(query): only the in_response_to field of the query is looked at
StorageFilter(statements, query) ==
    IF query.in_response_to # NullValue
    THEN IF IsString(query.in_response_to)
         THEN SelectSeq(statements,
                 LAMBDA stmtData :
                    /\ Truthy(stmtData.in_response_to) \/ stmtData.in_response_to = <<>>
                    /\ IsString(stmtData.in_response_to)
                    /\ ToLowerCase(stmtData.in_response_to)
                         = ToLowerCase(query.in_response_to))
         ELSE <<>>
    ELSE statements

---------------------------------------------------------------------------
(* Logic adapters (src/adapters) *)

BestMatchLogicAdapterOneConfidence(options) ==
    [ kind |-> "BestMatchLogicAdapter",
      responseSelectionMethod |-> options.responseSelectionMethod,
      fixedConfidence |->
          IF options.fixedConfidence = 0 THEN 9 ELSE options.fixedConfidence,
      unknownIntentConfidence |->
          IF options.fixedConfidence = 0 THEN 9 ELSE options.fixedConfidence ]

\* new BestMatchLogicAdapter(options); an option left out is 0 / "random"
BestMatchLogicAdapter(options) ==
    [ kind |-> "BestMatchLogicAdapter",
      responseSelectionMethod |-> options.responseSelectionMethod,
      fixedConfidence |->
          IF options.fixedConfidence = 0 THEN 9 ELSE options.fixedConfidence,
      unknownIntentConfidence |->
          IF options.unknownIntentConfidence = 0 THEN 3
          ELSE options.unknownIntentConfidence ]

DefaultOptions ==
    [ responseSelectionMethod |-> "_selectRandomResponse",
      fixedConfidence |-> 0, unknownIntentConfidence |-> 0 ]

\* new TimeLogicAdapter()
TimeLogicAdapterUnsure == [ kind |-> "TimeLogicAdapter", confidence |-> 9 ]

TimeLogicAdapter == [ kind |-> "TimeLogicAdapter", confidence |-> 10 ]

\* new LogicAdapter(): the base class, whose process is not implemented
LogicAdapter == [ kind |-> "LogicAdapter" ]

canProcess(adapter, statement) ==
    IF adapter.kind = "TimeLogicAdapter"
    THEN statement.intent = "ask_time"
    ELSE IsString(statement.text) /\ Len(statement.text) > 0

\* The statements process can choose from: the records the filter gave,
\* deserialized, those with an empty text left out
Candidates(potentialResponseData) ==
    SelectSeq([i \in 1..Len(potentialResponseData) |->
                  deserialize(potentialResponseData[i])],
              LAMBDA stmt : Truthy(stmt.text))

BestMatchResultsByCount(adapter, statement, filtered) ==
    LET potentialResponses == Candidates(filtered.data)
        nothing == [threw |-> FALSE, response |-> None, confidence |-> 0]
    IN  IF statement.intent \in {NullIntent, ""} THEN {nothing}
        ELSE IF filtered.threw THEN {nothing}
        ELSE IF Len(potentialResponses) = 0 THEN {nothing}
        ELSE { [threw |-> FALSE, response |-> Some(potentialResponses[i]),
                confidence |-> IF Len(potentialResponses) > 1
                               THEN adapter.fixedConfidence
                               ELSE adapter.unknownIntentConfidence] :
               i \in 1..Len(potentialResponses) }

\* The results BestMatchLogicAdapter.process can return, given what the
\* storage's filter did (raised, or returned data): one for each statement
\* the selection method can pick.
BestMatchResults(adapter, statement, filtered) ==
    LET potentialResponseData == filtered.data
        potentialResponses == Candidates(potentialResponseData)
        confidence ==
            IF statement.intent = DEFAULT_INTENT
            THEN adapter.unknownIntentConfidence
            ELSE adapter.fixedConfidence
        picks ==
            IF adapter.responseSelectionMethod = "_selectFirstResponse"
            THEN {1} ELSE 1..Len(potentialResponses)
        nothing == [threw |-> FALSE, response |-> None, confidence |-> 0]
    IN  IF statement.intent \in {NullIntent, ""} THEN {nothing}
        ELSE IF filtered.threw THEN {nothing}
        ELSE IF Len(potentialResponseData) = 0 THEN {nothing}
        ELSE IF Len(potentialResponses) = 0 THEN {nothing}
        ELSE { [threw |-> FALSE, response |-> Some(potentialResponses[i]),
                confidence |-> confidence] : i \in picks }

\* process over the JSON file storage, whose filter does not raise
BestMatchProcess(adapter, statement, statements) ==
    BestMatchResults(adapter, statement,
        [ threw |-> FALSE,
          data |-> StorageFilter(statements,
                      [in_response_to |-> NullValue, intent |-> statement.intent]) ])

\* The wall-clock times toLocaleTimeString may give
TimeStrings == {TenAM, TenPM}

TimeProcess(adapter, statement) ==
    { [ threw |-> FALSE,
        response |-> Some(StatementFromObject(
            Config(TheCurrentTimeIs \o timeString \o <<".">>,
                   statement.text, "inform_time", adapter.confidence))),
        confidence |-> adapter.confidence ] : timeString \in TimeStrings }

\* adapter.process(statement, storage): the possible outcomes
process(adapter, statement, statements) ==
    IF adapter.kind = "BestMatchLogicAdapter"
    THEN BestMatchProcess(adapter, statement, statements)
    ELSE IF adapter.kind = "TimeLogicAdapter"
    THEN TimeProcess(adapter, statement)
    ELSE {[threw |-> TRUE, response |-> None, confidence |-> 0]}

---------------------------------------------------------------------------
(* NlpProcessor (src/unnamed/part_000 lines 156-254) *)

UnknownResult == [intent |-> DEFAULT_INTENT, score |-> 0, entities |-> <<>>]

\* What manager.process does with a text: it answers one of managerIntents,
\* answers without an intent, or raises
ManagerAnswers(managerIntents) ==
    { [threw |-> FALSE, intent |-> i, score |-> 9] : i \in managerIntents }
        \cup { [threw |-> FALSE, intent |-> "", score |-> 0],
               [threw |-> TRUE, intent |-> "", score |-> 0] }

NlpResultUnguarded(isReady, answer) ==
    [ intent |-> IF answer.intent = "" THEN NullIntent ELSE answer.intent,
      score |-> answer.score, entities |-> <<>> ]

\* nlpProcessor.process(text) for one answer of the manager
NlpResult(isReady, answer) ==
    IF ~isReady THEN UnknownResult
    ELSE IF answer.threw THEN UnknownResult
    ELSE [ intent |-> IF answer.intent = "" THEN DEFAULT_INTENT ELSE answer.intent,
           score |-> answer.score, entities |-> <<>> ]

\* nlpProcessor.process(text): the possible results.  What the NlpManager
\* answers is outside this repository: any of managerIntents, or nothing
\* (an error, or no intent), which process turns into the unknown result.
NlpProcess(isReady, managerIntents) ==
    { NlpResult(isReady, answer) : answer \in ManagerAnswers(managerIntents) }

\* How the classifier call of a turn went
ClassifierCall(isReady, answer) ==
    IF ~isReady THEN "unavailable"
    ELSE IF answer.threw THEN "threw" ELSE "answered"

---------------------------------------------------------------------------
(* ChatBot (src/chatbot.js lines 1-178) *)

cleanWhitespace(statement) == [statement EXCEPT !.text = Trim(@)]
lowercase(statement) == [statement EXCEPT !.text = ToLowerCase(@)]

preprocess(statement) ==
    LET currentStatement ==
            IF IsString(statement.text) THEN statement
            ELSE [statement EXCEPT !.text = <<>>]
    IN  lowercase(cleanWhitespace(currentStatement))

\* A raw argument: a string, a number, null, or a config object with a text
RawString(text) == [kind |-> "string", text |-> text]
RawNumber == [kind |-> "number", text |-> NumberValue]
RawNull == [kind |-> "null", text |-> NullValue]
RawObject(text) == [kind |-> "object", text |-> text]

\* new Statement(inputData) throws "Invalid Statement configuration"
StatementThrows(inputData) == inputData.kind \notin {"string", "object"}

NewStatement(inputData) ==
    IF inputData.kind = "string"
    THEN StatementFromString(inputData.text)
    ELSE StatementFromObject(Config(inputData.text, NullValue, NullIntent, 0))

learnInputSequenceToItself(statements, statement, previousStatement) ==
    IF ~Truthy(statement.text) \/ ~Truthy(previousStatement.text)
    THEN statements
    ELSE StorageUpdate(statements,
            StatementFromObject(Config(statement.text, statement.text,
                                       statement.intent, 0))).statements

\* learnInputSequence: the store after it
learnInputSequence(statements, statement, previousStatement) ==
    IF ~Truthy(statement.text) \/ ~Truthy(previousStatement.text)
    THEN statements
    ELSE StorageUpdate(statements,
            StatementFromObject(Config(statement.text, previousStatement.text,
                                       statement.intent, 0))).statements

learnResponseToIntentOwnIntent(statements, responseStatement, intent) ==
    IF ~Truthy(responseStatement.text) \/ intent \in {NullIntent, ""}
    THEN statements
    ELSE StorageUpdate(statements,
            StatementFromObject(Config(responseStatement.text,
                                       responseStatement.in_response_to,
                                       responseStatement.intent, 0))).statements

\* learnResponseToIntent: the store after it
learnResponseToIntent(statements, responseStatement, intent) ==
    IF ~Truthy(responseStatement.text) \/ intent \in {NullIntent, ""}
    THEN statements
    ELSE StorageUpdate(statements,
            StatementFromObject(Config(responseStatement.text,
                                       responseStatement.in_response_to,
                                       intent, 0))).statements

confidenceThreshold == 4

SelectedStrict(bestMatch, maxConfidence) ==
    /\ bestMatch # None
    /\ bestMatch[1].response # None
    /\ maxConfidence > confidenceThreshold

\* The selection test of getResponse
Selected(bestMatch, maxConfidence) ==
    /\ bestMatch # None
    /\ bestMatch[1].response # None
    /\ maxConfidence >= confidenceThreshold

DefaultText(inputStatement) ==
    IF inputStatement.intent # "unknown" /\ inputStatement.nlp_score > 5
    THEN UnderstandPrefix \o <<inputStatement.intent>> \o UnderstandMiddle
            \o inputStatement.text \o UnderstandSuffix
    ELSE NotSurePrefix \o inputStatement.text \o NotSureSuffix

\* One outcome for each adapter of the list, in list order
RECURSIVE AdapterOutcomes(_, _, _, _)
AdapterOutcomes(adapters, i, statement, statements) ==
    IF i > Len(adapters) THEN {<<>>}
    ELSE LET mine ==
                IF canProcess(adapters[i], statement)
                THEN { [skipped |-> FALSE, threw |-> r.threw,
                        response |-> r.response, confidence |-> r.confidence] :
                       r \in process(adapters[i], statement, statements) }
                ELSE { [skipped |-> TRUE, threw |-> FALSE,
                        response |-> None, confidence |-> 0] }
         IN  { <<o>> \o rest :
                 o \in mine,
                 rest \in AdapterOutcomes(adapters, i + 1, statement, statements) }

RECURSIVE AdapterLoopLatest(_, _, _, _)
AdapterLoopLatest(outcomes, i, bestMatch, maxConfidence) ==
    IF i > Len(outcomes)
    THEN [threw |-> FALSE, bestMatch |-> bestMatch, maxConfidence |-> maxConfidence]
    ELSE IF outcomes[i].skipped
    THEN AdapterLoopLatest(outcomes, i + 1, bestMatch, maxConfidence)
    ELSE IF outcomes[i].threw
    THEN [threw |-> TRUE, bestMatch |-> bestMatch, maxConfidence |-> maxConfidence]
    ELSE IF outcomes[i].confidence >= maxConfidence
    THEN AdapterLoopLatest(outcomes, i + 1, Some(outcomes[i]), outcomes[i].confidence)
    ELSE AdapterLoopLatest(outcomes, i + 1, bestMatch, maxConfidence)

\* The adapter loop of getResponse over the outcomes: bestMatch and
\* maxConfidence when it ends, or threw when a process raised
RECURSIVE AdapterLoop(_, _, _, _)
AdapterLoop(outcomes, i, bestMatch, maxConfidence) ==
    IF i > Len(outcomes)
    THEN [threw |-> FALSE, bestMatch |-> bestMatch, maxConfidence |-> maxConfidence]
    ELSE IF outcomes[i].skipped
    THEN AdapterLoop(outcomes, i + 1, bestMatch, maxConfidence)
    ELSE IF outcomes[i].threw
    THEN [threw |-> TRUE, bestMatch |-> bestMatch, maxConfidence |-> maxConfidence]
    ELSE IF outcomes[i].confidence > maxConfidence
    THEN AdapterLoop(outcomes, i + 1, Some(outcomes[i]), outcomes[i].confidence)
    ELSE AdapterLoop(outcomes, i + 1, bestMatch, maxConfidence)

---------------------------------------------------------------------------
(* Inputs *)

UpdateStatements ==
    { StatementFromObject(Config(t, r, i, 0)) :
        t \in {Hello, hello},
        r \in {NullValue, hello, howareyou},
        i \in {NullIntent, "greeting"} }
    \cup
    { StatementFromObject(Config(t, hello, NullIntent, 0)) :
        t \in {howareyou, <<>>, NumberValue} }

FindQueries == {Hello, hello, howareyou, <<>>, NullValue}

\* Statements as the constructor and the bot's assignments leave them
RoundTripStatements ==
    { [ StatementFromObject([ text |-> t, in_response_to |-> r, intent |-> i,
                              confidence |-> c, timestamp |-> ts ])
          EXCEPT !.entities = e ] :
        t \in {Hello, <<>>, NumberValue},
        r \in {NullValue, hello},
        i \in {NullIntent, "greeting"},
        c \in {0, 9},
        ts \in {0, 1},
        e \in {<<>>, <<"e">>} }

\* filter queries: a field the query leaves out is null here
FilterQueries ==
    { [in_response_to |-> r, intent |-> i] :
        r \in {NullValue, NumberValue, Hello, howareyou},
        i \in {NullIntent, "greeting"} }

InitialStores ==
    { <<>>,
      << [ text |-> Hello, in_response_to |-> NullValue,
           conversation |-> "default", timestamp |-> 1,
           intent |-> NullIntent, entities |-> <<>>, tag |-> "seed" ] >> }

RawInputs == {RawString(Hello), RawString(HowAreYou), RawString(Blank), RawNumber}
OriginalInputs == {Hello, HowAreYou}
CorrectResponses == {PaddedHello, HowAreYou}
ManagerIntents == {"greeting"}

AdapterLists ==
    { << BestMatchLogicAdapter(DefaultOptions) >>,
      << LogicAdapter, BestMatchLogicAdapter(DefaultOptions) >>,
      << BestMatchLogicAdapter([DefaultOptions EXCEPT !.fixedConfidence = 4]) >> }

---------------------------------------------------------------------------
(* The file behind the storage adapter and the calls in flight *)

MaxTasks == 3
Tasks == 1..MaxTasks

\* What readFile can find at databasePath: no file, a file that cannot be
\* read, text that is not JSON, JSON without a statements array, or a
\* snapshot written by _saveData
JsonFile(statements) == [kind |-> "json", statements |-> statements]
MissingFile == [kind |-> "missing", statements |-> <<>>]
UnreadableFile == [kind |-> "unreadable", statements |-> <<>>]
CorruptFile == [kind |-> "corrupt", statements |-> <<>>]
InvalidFile == [kind |-> "invalid", statements |-> <<>>]

\* The adapter as constructed: _data and _loadPromise are null.  reads
\* counts the readFile calls, generation the objects assigned to _data,
\* snaps the snapshots taken; found is what the load found, loaded what it
\* put in the cache, creating the state of the write that creates the file,
\* ready the continuations waiting to run and order the writes in the order
\* they completed (0 is the creating write).
NewAdapter ==
    [ data |-> FALSE, loadPromise |-> 0, reads |-> 0, generation |-> 0,
      snaps |-> 0, found |-> "none", loaded |-> <<>>, creating |-> "no",
      ready |-> <<>>, order |-> <<>> ]

\* The adapter once a snapshot has been loaded and nothing is in flight
LoadedAdapter ==
    [ NewAdapter EXCEPT !.data = TRUE, !.reads = 1, !.generation = 1,
                        !.found = "json" ]

IdleTask == [pc |-> "idle"]

---------------------------------------------------------------------------
(* Actions *)

MaxTurns == 3

\* The calls are recorded while tracing, MaxTurns of them at most
Record(entry) ==
    /\ tracing => Len(trace) < MaxTurns
    /\ trace' = IF tracing THEN Append(trace, entry) ELSE trace
    /\ UNCHANGED <<tracing, storage, tasks>>

\* storage.update(statement), called directly
UpdateAmong(statements) ==
    \E statement \in statements :
        LET r == StorageUpdate(store, statement)
        IN  /\ store' = r.statements
            /\ file' = JsonFile(store')
            /\ call' = [ op |-> "update", statement |-> statement,
                         before |-> store,
                         old |-> IF r.existingIndex = 0 THEN None
                                 ELSE Some(store[r.existingIndex]),
                         existingIndex |-> r.existingIndex,
                         ret |-> r.ret, threw |-> FALSE ]
            /\ Record([op |-> "update"])
            /\ UNCHANGED <<previous_statement, nlpIsReady, nlpReady, logicAdapters>>

Update == UpdateAmong(UpdateStatements)

\* storage.find({text: queryText}), called directly
FindAmong(queries) ==
    \E queryText \in queries :
        /\ call' = [ op |-> "find", queryText |-> queryText,
                     ret |-> StorageFind(store, queryText), threw |-> FALSE ]
        /\ Record([op |-> "find"])
        /\ UNCHANGED <<store, file, previous_statement, nlpIsReady, nlpReady, logicAdapters>>

Find == FindAmong(FindQueries)

\* storage.filter(query), called directly
FilterAmong(queries) ==
    \E query \in queries :
        /\ call' = [ op |-> "filter", query |-> query,
                     ret |-> StorageFilter(store, query), threw |-> FALSE ]
        /\ Record([op |-> "filter"])
        /\ UNCHANGED <<store, file, previous_statement, nlpIsReady, nlpReady, logicAdapters>>

Filter == FilterAmong(FilterQueries)

\* Statement.deserialize(statement.serialize())
SerializeRoundTrip ==
    \E statement \in RoundTripStatements :
        /\ call' = [ op |-> "deserialize", statement |-> statement,
                     data |-> serialize(statement),
                     ret |-> Some(deserialize(serialize(statement))),
                     threw |-> FALSE ]
        /\ Record([op |-> "deserialize"])
        /\ UNCHANGED <<store, file, previous_statement, nlpIsReady, nlpReady, logicAdapters>>

NeedsLoadAlways(isReady) == TRUE

\* initialize loads the classifier only when it is not ready
NeedsLoad(isReady) == ~isReady

\* bot.initialize(): the saved model loads, or it is trained from scratch,
\* or training fails and initialize rejects
Initialize ==
    \E outcome \in {"loaded", "trained", "failed"} :
        LET loads == NeedsLoad(nlpIsReady)
            threw == loads /\ outcome = "failed"
            isReady == nlpIsReady \/ (loads /\ outcome # "failed")
        IN  /\ nlpIsReady' = isReady
            /\ nlpReady' = IF threw THEN nlpReady ELSE isReady
            /\ call' = [ op |-> "initialize", threw |-> threw,
                         loaded |-> loads ]
            /\ Record([op |-> "initialize"])
            /\ UNCHANGED <<store, file, previous_statement, logicAdapters>>

StillStartingUpSkipped(ready) == FALSE

\* The readiness test that opens getResponse
StillStartingUp(ready) == ~ready

AdvancedKept(previous, inputStatement) == previous

\* The previous-turn state after a turn: this.previous_statement = inputStatement
Advanced(previous, inputStatement) == Some(inputStatement)

\* The input statement of a turn: preprocessed, with the NLP result attached
Classified(preprocessed, nlpResult) ==
    [ text |-> preprocessed.text,
      in_response_to |-> preprocessed.in_response_to,
      conversation |-> preprocessed.conversation,
      confidence |-> preprocessed.confidence,
      timestamp |-> preprocessed.timestamp,
      intent |-> nlpResult.intent,
      entities |-> nlpResult.entities,
      nlp_score |-> nlpResult.score ]

\* bot.getResponse(inputData)
GetResponse(inputs, managerIntents) ==
    \E inputData \in inputs :
      /\ Record([op |-> "getResponse", inputData |-> inputData])
      /\ IF StillStartingUp(nlpReady)
         THEN /\ call' = [ op |-> "getResponse", inputData |-> inputData,
                           path |-> "starting_up", threw |-> FALSE, raised |-> FALSE,
                           before |-> store, previous |-> previous_statement,
                           classifier |-> "none", outcomes |-> <<>>,
                           ret |-> Some(StatementFromObject(
                                     Config(StartingUpText, NullValue, NullIntent, 0))) ]
              /\ UNCHANGED <<store, file, previous_statement, nlpIsReady, nlpReady,
                             logicAdapters>>
         ELSE IF StatementThrows(inputData)
         THEN /\ call' = [ op |-> "getResponse", inputData |-> inputData,
                           path |-> "threw", threw |-> TRUE, raised |-> FALSE,
                           before |-> store, previous |-> previous_statement,
                           classifier |-> "none", outcomes |-> <<>>,
                           ret |-> None ]
              /\ UNCHANGED <<store, file, previous_statement, nlpIsReady, nlpReady,
                             logicAdapters>>
         ELSE
           \E answer \in ManagerAnswers(managerIntents) :
             LET nlpResult == NlpResult(nlpIsReady, answer)
                 inputStatement ==
                     Classified(preprocess(NewStatement(inputData)), nlpResult)
                 linked ==
                     IF previous_statement # None
                     THEN learnInputSequence(store, inputStatement,
                                             previous_statement[1])
                     ELSE store
             IN
             \E outcomes \in AdapterOutcomes(logicAdapters, 1, inputStatement, linked) :
               LET loop == AdapterLoop(outcomes, 1, None, -10)
                   adopted == Selected(loop.bestMatch, loop.maxConfidence)
                   responseStatement ==
                       IF adopted
                       THEN [loop.bestMatch[1].response[1]
                                 EXCEPT !.confidence = loop.maxConfidence]
                       ELSE StatementFromObject(
                               Config(DefaultText(inputStatement),
                                      inputStatement.text, "default_response", 0))
                   info == [ op |-> "getResponse", inputData |-> inputData,
                             statement |-> inputStatement,
                             before |-> store,
                             previous |-> previous_statement,
                             classifier |-> ClassifierCall(nlpIsReady, answer),
                             outcomes |-> outcomes,
                             bestMatch |-> loop.bestMatch,
                             maxConfidence |-> loop.maxConfidence ]
               IN  IF loop.threw
                   THEN /\ store' = linked
                        /\ file' = JsonFile(store')
                        /\ call' = info @@ [ path |-> "threw", threw |-> TRUE,
                                             raised |-> TRUE, ret |-> None ]
                        /\ UNCHANGED <<previous_statement, nlpIsReady, nlpReady,
                                       logicAdapters>>
                   ELSE /\ store' = IF adopted
                                    THEN learnResponseToIntent(linked,
                                            responseStatement, inputStatement.intent)
                                    ELSE linked
                        /\ file' = JsonFile(store')
                        /\ previous_statement' =
                              Advanced(previous_statement, inputStatement)
                        /\ call' = info @@ [ path |-> IF adopted THEN "adopted"
                                                      ELSE "default",
                                             threw |-> FALSE, raised |-> FALSE,
                                             ret |-> Some(responseStatement) ]
                        /\ UNCHANGED <<nlpIsReady, nlpReady, logicAdapters>>

\* The statement learnCorrection stores
CorrectedStatementSwapped(originalInputStatement, correctResponseStatement) ==
    StatementFromObject(
        Config(originalInputStatement.text, correctResponseStatement.text,
               originalInputStatement.intent, 0))

CorrectedStatement(originalInputStatement, correctResponseStatement) ==
    StatementFromObject(
        Config(correctResponseStatement.text, originalInputStatement.text,
               originalInputStatement.intent, 0))

\* bot.learnCorrection(originalInputText, correctResponseText)
LearnCorrection(originals, corrects, managerIntents) ==
    \E originalInputText \in originals, correctResponseText \in corrects :
      \E answer \in ManagerAnswers(managerIntents) :
        LET nlpResult == NlpResult(nlpIsReady, answer)
            originalInputStatement ==
                Classified(preprocess(StatementFromString(originalInputText)),
                           nlpResult)
            correctResponseStatement ==
                preprocess(StatementFromString(correctResponseText))
            correctedStatementToLearn ==
                CorrectedStatement(originalInputStatement, correctResponseStatement)
        IN  /\ store' = StorageUpdate(store, correctedStatementToLearn).statements
            /\ file' = JsonFile(store')
            /\ call' = [ op |-> "learnCorrection",
                         originalInputText |-> originalInputText,
                         correctResponseText |-> correctResponseText,
                         intent |-> nlpResult.intent,
                         classifier |-> ClassifierCall(nlpIsReady, answer),
                         before |-> store,
                         previous |-> previous_statement,
                         threw |-> FALSE ]
            /\ Record([ op |-> "learnCorrection",
                        originalInputText |-> originalInputText,
                        correctResponseText |-> correctResponseText ])
            /\ UNCHANGED <<previous_statement, nlpIsReady, nlpReady, logicAdapters>>

---------------------------------------------------------------------------
(* Storage calls that overlap: each call runs from one await to the next in
   one step, the steps of different calls interleave *)

\* _loadData returns the promise of the load in flight instead of reading
LoadInFlightIgnored(adapter) == FALSE

LoadInFlight(adapter) == adapter.loadPromise # 0

LoadedFromRethrowing(found) ==
    [ statements |-> IF found.kind = "json" THEN found.statements ELSE <<>>,
      create |-> found.kind = "missing",
      threw |-> found.kind \in {"unreadable", "corrupt", "invalid"} ]

\* The try / catch of the load: the statements put in the cache, whether
\* the file is to be created, whether the load rejects
LoadedFrom(found) ==
    [ statements |-> IF found.kind = "json" THEN found.statements ELSE <<>>,
      create |-> found.kind = "missing",
      threw |-> FALSE ]

WriteContentLive(snapshot, statements) == statements

\* What writeFile is given: JSON.stringify(this._data) is evaluated when
\* _saveData is called, not when the write completes
WriteContent(snapshot, statements) == snapshot

Appended(found, content) == JsonFile(found.statements \o content)

\* writeFile replaces what the file held with the content it is given
Overwritten(found, content) == JsonFile(content)

\* The calls in flight awaiting the load of task loader, in call order
Waiters(loader) ==
    LET waiting(t) == tasks[t].pc = "awaiting" /\ tasks[t].awaits = loader
    IN  SelectSeq([t \in Tasks |-> t], waiting)

FileStatements ==
    { StatementFromObject(Config(t, NullValue, NullIntent, 0)) :
        t \in {Hello, howareyou, NumberValue} }

StorageCalls ==
    { [op |-> "update", statement |-> s] : s \in FileStatements }
    \cup { [op |-> "find", text |-> Hello],
           [op |-> "filter", query |-> [in_response_to |-> NullValue,
                                        intent |-> NullIntent]] }

FilesFound ==
    { MissingFile, UnreadableFile, CorruptFile, InvalidFile,
      JsonFile(<< serialize(StatementFromObject(
                      Config(Hello, NullValue, NullIntent, 0))) >>) }

StorageUnchanged ==
    UNCHANGED <<previous_statement, nlpIsReady, nlpReady, logicAdapters, call,
                tracing, trace>>

\* find, filter or update is called and runs up to its await of _loadData
CallStorage(t) ==
    /\ tasks[t].pc = "idle"
    /\ \A u \in Tasks : u < t => tasks[u].pc # "idle"
    /\ \E c \in StorageCalls :
         LET started == [ pc |-> "ready", call |-> c,
                          arrived |-> [ data |-> storage.data,
                                        loading |-> storage.loadPromise # 0 ],
                          awaited |-> FALSE, awaits |-> 0, got |-> 0,
                          snapshot |-> <<>>, snap |-> 0, inserted |-> FALSE,
                          ret |-> None, threw |-> FALSE ]
         IN  IF storage.data
             THEN /\ tasks' = [tasks EXCEPT ![t] = started]
                  /\ storage' = [storage EXCEPT !.ready = Append(@, t)]
             ELSE IF LoadInFlight(storage)
             THEN /\ tasks' = [tasks EXCEPT ![t] =
                                  [started EXCEPT !.pc = "awaiting",
                                                  !.awaited = TRUE,
                                                  !.awaits = storage.loadPromise]]
                  /\ UNCHANGED storage
             ELSE /\ tasks' = [tasks EXCEPT ![t] =
                                  [started EXCEPT !.pc = "loading", !.awaits = t]]
                  /\ storage' = [storage EXCEPT !.loadPromise = t,
                                                !.reads = @ + 1]
    /\ UNCHANGED <<store, file>>
    /\ StorageUnchanged

\* The calls awaiting the load of task loader are rejected
Rejected(loader) ==
    [ t \in Tasks |->
        IF t = loader \/ (tasks[t].pc = "awaiting" /\ tasks[t].awaits = loader)
        THEN [tasks[t] EXCEPT !.pc = "done", !.threw = TRUE]
        ELSE tasks[t] ]

\* The calls awaiting the load of task loader can go on
Released(loader) ==
    [ t \in Tasks |->
        IF t = loader \/ (tasks[t].pc = "awaiting" /\ tasks[t].awaits = loader)
        THEN [tasks[t] EXCEPT !.pc = "ready"]
        ELSE tasks[t] ]

\* readFile settles for the load started by task t
ReadDone(t) ==
    /\ tasks[t].pc = "loading"
    /\ LET r == LoadedFrom(file)
       IN  IF r.threw
           THEN /\ storage' = [storage EXCEPT !.loadPromise = 0,
                                              !.found = file.kind]
                /\ tasks' = Rejected(t)
                /\ UNCHANGED store
           ELSE IF r.create
           THEN /\ store' = r.statements
                /\ storage' = [storage EXCEPT !.data = TRUE,
                                              !.generation = @ + 1,
                                              !.found = file.kind,
                                              !.loaded = r.statements,
                                              !.snaps = @ + 1,
                                              !.creating = "pending"]
                /\ tasks' = [tasks EXCEPT ![t].pc = "creating",
                                          ![t].snapshot = r.statements]
           ELSE /\ store' = r.statements
                /\ storage' = [storage EXCEPT !.data = TRUE,
                                              !.generation = @ + 1,
                                              !.found = file.kind,
                                              !.loaded = r.statements,
                                              !.loadPromise = 0,
                                              !.ready = @ \o <<t>> \o Waiters(t)]
                /\ tasks' = Released(t)
    /\ UNCHANGED file
    /\ StorageUnchanged

\* The write that creates the missing file settles, written or not, and the
\* load settles after it
CreateDone(t) ==
    /\ tasks[t].pc = "creating"
    /\ \E written \in BOOLEAN :
         /\ file' = IF written
                    THEN Overwritten(file, WriteContent(tasks[t].snapshot, store))
                    ELSE file
         /\ storage' = [storage EXCEPT
                           !.loadPromise = 0,
                           !.creating = IF written THEN "written" ELSE "failed",
                           !.order = IF written THEN Append(@, 0) ELSE @,
                           !.ready = @ \o <<t>> \o Waiters(t)]
    /\ tasks' = Released(t)
    /\ UNCHANGED store
    /\ StorageUnchanged

\* The call whose continuation is next runs to its end, or to the await of
\* the write it starts
Resume(t) ==
    /\ storage.ready # <<>>
    /\ t = Head(storage.ready)
    /\ LET c == tasks[t].call
           mine == [tasks[t] EXCEPT !.got = storage.generation]
       IN  CASE c.op = "find" ->
                  /\ tasks' = [tasks EXCEPT ![t] =
                        [mine EXCEPT !.pc = "done",
                                     !.ret = StorageFind(store, c.text)]]
                  /\ storage' = [storage EXCEPT !.ready = Tail(@)]
                  /\ UNCHANGED store
             [] c.op = "filter" ->
                  /\ tasks' = [tasks EXCEPT ![t] =
                        [mine EXCEPT !.pc = "done",
                                     !.ret = StorageFilter(store, c.query)]]
                  /\ storage' = [storage EXCEPT !.ready = Tail(@)]
                  /\ UNCHANGED store
             [] c.op = "update" ->
                  LET r == StorageUpdate(store, c.statement)
                  IN  IF r.ret = None
                      THEN /\ tasks' = [tasks EXCEPT ![t] =
                                           [mine EXCEPT !.pc = "done"]]
                           /\ storage' = [storage EXCEPT !.ready = Tail(@)]
                           /\ UNCHANGED store
                      ELSE /\ store' = r.statements
                           /\ tasks' = [tasks EXCEPT ![t] =
                                 [mine EXCEPT !.pc = "writing",
                                              !.snapshot = r.statements,
                                              !.snap = storage.snaps + 1,
                                              !.inserted = r.existingIndex = 0,
                                              !.ret = r.ret]]
                           /\ storage' = [storage EXCEPT !.ready = Tail(@),
                                                         !.snaps = @ + 1]
    /\ UNCHANGED file
    /\ StorageUnchanged

SaveRejectsWhenNotWritten(written) == ~written

\* The try / catch of _saveData: whether the save rejects; an error of
\* writeFile is logged and swallowed
SaveRejects(written) == FALSE

\* The write started by the update of task t settles, written or not
WriteDone(t) ==
    /\ tasks[t].pc = "writing"
    /\ \E written \in BOOLEAN :
         /\ file' = IF written
                    THEN Overwritten(file, WriteContent(tasks[t].snapshot, store))
                    ELSE file
         /\ storage' = [storage EXCEPT
                           !.order = IF written THEN Append(@, t) ELSE @]
         /\ tasks' = [tasks EXCEPT ![t].pc = "done",
                                   ![t].threw = SaveRejects(written)]
    /\ UNCHANGED store
    /\ StorageUnchanged

InitFile ==
    /\ store = <<>>
    /\ previous_statement = None
    /\ nlpIsReady = FALSE
    /\ nlpReady = FALSE
    /\ logicAdapters = <<>>
    /\ call = [op |-> "none", threw |-> FALSE]
    /\ tracing = FALSE
    /\ trace = <<>>
    /\ file \in FilesFound
    /\ storage = NewAdapter
    /\ tasks = [t \in Tasks |-> IdleTask]

NextFile ==
    \E t \in Tasks :
        \/ CallStorage(t)
        \/ ReadDone(t)
        \/ CreateDone(t)
        \/ Resume(t)
        \/ WriteDone(t)

SpecFile == InitFile /\ [][NextFile]_vars

---------------------------------------------------------------------------
(* getResponse calls that overlap on one bot: each call runs from one await
   to the next in one step, and other calls may run at every await *)

MaxOverlap == 2

\* The getResponse calls that may overlap
Turns == { t \in Tasks : t <= MaxOverlap }

OverlapInputs == {RawString(Hello), RawString(HowAreYou)}
OverlapIntents == {"greeting"}

\* The turn before the overlapping ones, when there was one: 'Hi' left
\* unclassified, which stored nothing
EarlierTurn == Classified(preprocess(StatementFromString(Hi)), UnknownResult)

\* The number of getResponse calls that have returned or raised
Finished == Cardinality({ t \in Tasks : tasks[t].pc = "done" })

TurnUnchanged == UNCHANGED <<nlpIsReady, nlpReady, logicAdapters, call, tracing,
                             trace, storage>>

\* getResponse is called and runs up to its await of nlpProcessor.process
BeginTurn(t) ==
    /\ tasks[t].pc = "idle"
    /\ \A u \in Tasks : u < t => tasks[u].pc # "idle"
    /\ \E inputData \in OverlapInputs :
         LET begun == [ pc |-> "classifying", inputData |-> inputData,
                        statement |-> preprocess(NewStatement(inputData)),
                        previous |-> None, linked |-> FALSE, snapshot |-> <<>>,
                        finished |-> 0, ret |-> None, threw |-> FALSE ]
         IN  tasks' = [tasks EXCEPT ![t] =
                IF StillStartingUp(nlpReady)
                THEN [begun EXCEPT
                        !.pc = "done", !.finished = Finished + 1,
                        !.ret = Some(StatementFromObject(
                                   Config(StartingUpText, NullValue, NullIntent, 0)))]
                ELSE begun]
    /\ UNCHANGED <<store, file, previous_statement>>
    /\ TurnUnchanged

\* The classifier answers: the call reads previous_statement and stores the
\* sequence link, up to the await of the write
ClassifyDone(t) ==
    /\ tasks[t].pc = "classifying"
    /\ \E answer \in ManagerAnswers(OverlapIntents) :
         LET inputStatement ==
                 Classified(tasks[t].statement, NlpResult(nlpIsReady, answer))
             linked == IF previous_statement # None
                       THEN learnInputSequence(store, inputStatement,
                                               previous_statement[1])
                       ELSE store
         IN  /\ store' = linked
             /\ tasks' = [tasks EXCEPT ![t] =
                   [@ EXCEPT !.pc = "responding",
                             !.statement = inputStatement,
                             !.previous = previous_statement,
                             !.linked = /\ previous_statement # None
                                        /\ Truthy(inputStatement.text)
                                        /\ Truthy(previous_statement[1].text),
                             !.snapshot = linked]]
    /\ UNCHANGED <<file, previous_statement>>
    /\ TurnUnchanged

\* The write of the link settles, written or not; the adapters run and the
\* response is selected: the call ends with the default response, or stores
\* the response association up to the await of its write
Respond(t) ==
    /\ tasks[t].pc = "responding"
    /\ LET inputStatement == tasks[t].statement
       IN  \E outcomes \in AdapterOutcomes(logicAdapters, 1, inputStatement, store),
              written \in BOOLEAN :
             LET loop == AdapterLoop(outcomes, 1, None, -10)
                 adopted == Selected(loop.bestMatch, loop.maxConfidence)
                 responseStatement ==
                     IF adopted
                     THEN [loop.bestMatch[1].response[1]
                               EXCEPT !.confidence = loop.maxConfidence]
                     ELSE StatementFromObject(
                             Config(DefaultText(inputStatement),
                                    inputStatement.text, "default_response", 0))
                 associated == learnResponseToIntent(store, responseStatement,
                                                     inputStatement.intent)
             IN  /\ tasks[t].linked \/ written
                 /\ file' = IF tasks[t].linked /\ written
                            THEN Overwritten(file,
                                     WriteContent(tasks[t].snapshot, store))
                            ELSE file
                 /\ IF loop.threw
                    THEN /\ tasks' = [tasks EXCEPT ![t] =
                               [@ EXCEPT !.pc = "done", !.threw = TRUE,
                                         !.finished = Finished + 1]]
                         /\ UNCHANGED <<store, previous_statement>>
                    ELSE IF adopted
                    THEN /\ store' = associated
                         /\ tasks' = [tasks EXCEPT ![t] =
                               [@ EXCEPT !.pc = "associating",
                                         !.snapshot = associated,
                                         !.ret = Some(responseStatement)]]
                         /\ UNCHANGED previous_statement
                    ELSE /\ previous_statement' =
                              Advanced(previous_statement, inputStatement)
                         /\ tasks' = [tasks EXCEPT ![t] =
                               [@ EXCEPT !.pc = "done",
                                         !.finished = Finished + 1,
                                         !.ret = Some(responseStatement)]]
                         /\ UNCHANGED store
    /\ TurnUnchanged

\* The write of the response association settles, written or not, and the
\* call sets previous_statement and returns
FinishTurn(t) ==
    /\ tasks[t].pc = "associating"
    /\ \E written \in BOOLEAN :
         file' = IF written
                 THEN Overwritten(file, WriteContent(tasks[t].snapshot, store))
                 ELSE file
    /\ previous_statement' = Advanced(previous_statement, tasks[t].statement)
    /\ tasks' = [tasks EXCEPT ![t] =
                   [@ EXCEPT !.pc = "done", !.finished = Finished + 1]]
    /\ UNCHANGED store
    /\ TurnUnchanged

InitOverlap ==
    /\ store = <<>>
    /\ previous_statement \in {None, Some(EarlierTurn)}
    /\ nlpIsReady = TRUE
    /\ nlpReady = TRUE
    /\ logicAdapters = << BestMatchLogicAdapter(DefaultOptions) >>
    /\ call = [op |-> "none", threw |-> FALSE]
    /\ tracing = FALSE
    /\ trace = <<>>
    /\ file = JsonFile(store)
    /\ storage = LoadedAdapter
    /\ tasks = [t \in Tasks |-> IdleTask]

NextOverlap ==
    \E t \in Turns :
        \/ BeginTurn(t)
        \/ ClassifyDone(t)
        \/ Respond(t)
        \/ FinishTurn(t)

SpecOverlap == InitOverlap /\ [][NextOverlap]_vars

---------------------------------------------------------------------------
(* The storage adapter on its own: find and update called directly *)

InitStorage ==
    /\ store \in InitialStores
    /\ previous_statement = None
    /\ nlpIsReady = FALSE
    /\ nlpReady = FALSE
    /\ logicAdapters = <<>>
    /\ call = [op |-> "none", threw |-> FALSE]
    /\ tracing = FALSE
    /\ trace = <<>>
    /\ file = JsonFile(store)
    /\ storage = LoadedAdapter
    /\ tasks = [t \in Tasks |-> IdleTask]

NextStorage ==
    \/ Update
    \/ Find
    \/ Filter

SpecStorage == InitStorage /\ [][NextStorage]_vars

(* Statements written to the store and read back *)

NextRoundTrip ==
    \/ SerializeRoundTrip
    \/ Update

SpecRoundTrip == InitStorage /\ [][NextRoundTrip]_vars

(* The bot after construction, with each of the adapter lists *)

Init ==
    /\ store = <<>>
    /\ previous_statement = None
    /\ nlpIsReady = FALSE
    /\ nlpReady = FALSE
    /\ logicAdapters \in AdapterLists
    /\ call = [op |-> "none", threw |-> FALSE]
    /\ tracing = FALSE
    /\ trace = <<>>
    /\ file = JsonFile(store)
    /\ storage = LoadedAdapter
    /\ tasks = [t \in Tasks |-> IdleTask]

Next ==
    \/ Initialize
    \/ GetResponse(RawInputs, ManagerIntents)
    \/ LearnCorrection(OriginalInputs, CorrectResponses, ManagerIntents)

Spec == Init /\ [][Next]_vars

(* A ready bot with the server's adapter list and an empty store, its calls
   recorded: the scenarios of a few turns *)

TurnInputs == {RawString(Hello), RawString(HowAreYou)}
TurnIntents == {"greeting", "ask_status"}

InitTurns ==
    /\ store = <<>>
    /\ previous_statement = None
    /\ nlpIsReady = TRUE
    /\ nlpReady = TRUE
    /\ logicAdapters = << BestMatchLogicAdapter(DefaultOptions) >>
    /\ call = [op |-> "none", threw |-> FALSE]
    /\ tracing = TRUE
    /\ trace = <<>>
    /\ file = JsonFile(store)
    /\ storage = LoadedAdapter
    /\ tasks = [t \in Tasks |-> IdleTask]

NextTurns ==
    \/ GetResponse(TurnInputs, TurnIntents)
    \/ LearnCorrection(OriginalInputs, CorrectResponses, TurnIntents)

SpecTurns == InitTurns /\ [][NextTurns]_vars

(* A ready bot with the time adapter registered as well *)

TimeInputs == {RawString(Hello), RawString(EchoOfTime)}
TimeIntents == {"ask_time"}

TimeAdapterLists ==
    { << TimeLogicAdapter, BestMatchLogicAdapter(DefaultOptions) >>,
      << BestMatchLogicAdapter(DefaultOptions), TimeLogicAdapter >> }

InitTime ==
    /\ store = <<>>
    /\ previous_statement = None
    /\ nlpIsReady = TRUE
    /\ nlpReady = TRUE
    /\ logicAdapters \in TimeAdapterLists
    /\ call = [op |-> "none", threw |-> FALSE]
    /\ tracing = FALSE
    /\ trace = <<>>
    /\ file = JsonFile(store)
    /\ storage = LoadedAdapter
    /\ tasks = [t \in Tasks |-> IdleTask]

NextTime == GetResponse(TimeInputs, TimeIntents)

SpecTime == InitTime /\ [][NextTime]_vars

(* A ready bot with several adapters that can answer the same turn *)

FirstResponseOptions ==
    [DefaultOptions EXCEPT !.responseSelectionMethod = "_selectFirstResponse"]

SeveralAdapterLists ==
    { << TimeLogicAdapter, BestMatchLogicAdapter(FirstResponseOptions),
         BestMatchLogicAdapter(DefaultOptions) >>,
      << BestMatchLogicAdapter([FirstResponseOptions EXCEPT !.fixedConfidence = 4]),
         BestMatchLogicAdapter(DefaultOptions) >> }

SeveralIntents == {"greeting"}

InitSeveral ==
    /\ store = <<>>
    /\ previous_statement = None
    /\ nlpIsReady = TRUE
    /\ nlpReady = TRUE
    /\ logicAdapters \in SeveralAdapterLists
    /\ call = [op |-> "none", threw |-> FALSE]
    /\ tracing = FALSE
    /\ trace = <<>>
    /\ file = JsonFile(store)
    /\ storage = LoadedAdapter
    /\ tasks = [t \in Tasks |-> IdleTask]

NextSeveral == GetResponse(TurnInputs, SeveralIntents)

SpecSeveral == InitSeveral /\ [][NextSeveral]_vars

(* The best-match adapter on its own, over a storage whose filter may raise *)

ProcessStatements ==
    { [ StatementFromString(t) EXCEPT !.intent = i ] :
        t \in {hello}, i \in {NullIntent, "", DEFAULT_INTENT, "greeting"} }

ProcessAdapters ==
    { BestMatchLogicAdapter(DefaultOptions),
      BestMatchLogicAdapter(FirstResponseOptions) }

StoredStatements ==
    { StatementFromObject(Config(t, hello, "greeting", 0)) :
        t \in {hello, howareyou, <<>>} }

\* adapter.process(statement, storage), called directly
Process ==
    \E adapter \in ProcessAdapters, statement \in ProcessStatements,
       filterThrew \in BOOLEAN :
        LET filtered ==
                [ threw |-> filterThrew,
                  data |-> IF filterThrew THEN <<>>
                           ELSE StorageFilter(store,
                                   [ in_response_to |-> NullValue,
                                     intent |-> statement.intent ]) ]
        IN  \E result \in BestMatchResults(adapter, statement, filtered) :
              /\ call' = [ op |-> "process", adapter |-> adapter,
                           statement |-> statement, filtered |-> filtered,
                           ret |-> [ response |-> result.response,
                                     confidence |-> result.confidence ],
                           threw |-> result.threw ]
              /\ Record([op |-> "process"])
              /\ UNCHANGED <<store, file, previous_statement, nlpIsReady, nlpReady,
                             logicAdapters>>

InitBestMatch ==
    /\ store = <<>>
    /\ previous_statement = None
    /\ nlpIsReady = FALSE
    /\ nlpReady = FALSE
    /\ logicAdapters = <<>>
    /\ call = [op |-> "none", threw |-> FALSE]
    /\ tracing = FALSE
    /\ trace = <<>>
    /\ file = JsonFile(store)
    /\ storage = LoadedAdapter
    /\ tasks = [t \in Tasks |-> IdleTask]

NextBestMatch ==
    \/ Process
    \/ UpdateAmong(StoredStatements)

SpecBestMatch == InitBestMatch /\ [][NextBestMatch]_vars

(* A ready bot that is corrected between turns, blank texts included *)

BlankOriginalInputs == {Hello, Blank}
BlankCorrectResponses == {PaddedHello, HowAreYou, Blank}

InitCorrections ==
    /\ store = <<>>
    /\ previous_statement = None
    /\ nlpIsReady = TRUE
    /\ nlpReady = TRUE
    /\ logicAdapters = << BestMatchLogicAdapter(DefaultOptions) >>
    /\ call = [op |-> "none", threw |-> FALSE]
    /\ tracing = FALSE
    /\ trace = <<>>
    /\ file = JsonFile(store)
    /\ storage = LoadedAdapter
    /\ tasks = [t \in Tasks |-> IdleTask]

NextCorrections ==
    \/ GetResponse({RawString(Hello)}, ManagerIntents)
    \/ LearnCorrection(BlankOriginalInputs, BlankCorrectResponses, ManagerIntents)

SpecCorrections == InitCorrections /\ [][NextCorrections]_vars

---------------------------------------------------------------------------
(* A ready bot over a loaded store, the storage called directly as well *)

KeyStatements ==
    { StatementFromObject(Config(t, hello, NullIntent, 0)) :
        t \in {Hello, hello, NumberValue} }

InitKeys ==
    /\ store \in InitialStores
    /\ previous_statement = None
    /\ nlpIsReady = TRUE
    /\ nlpReady = TRUE
    /\ logicAdapters = << BestMatchLogicAdapter(DefaultOptions) >>
    /\ call = [op |-> "none", threw |-> FALSE]
    /\ tracing = FALSE
    /\ trace = <<>>
    /\ file = JsonFile(store)
    /\ storage = LoadedAdapter
    /\ tasks = [t \in Tasks |-> IdleTask]

NextKeys ==
    \/ GetResponse(TurnInputs, ManagerIntents)
    \/ LearnCorrection({Hello}, {HowAreYou}, ManagerIntents)
    \/ UpdateAmong(KeyStatements)
    \/ FindAmong({Hello})
    \/ FilterAmong({[in_response_to |-> Hello, intent |-> NullIntent]})

SpecKeys == InitKeys /\ [][NextKeys]_vars

---------------------------------------------------------------------------
(* Properties *)

\* The key of a stored record: its text compared case-insensitively
Key(stmtData) ==
    IF IsString(stmtData.text) THEN ToLowerCase(stmtData.text) ELSE NullValue

Holding(statements, key) == { i \in 1..Len(statements) : Key(statements[i]) = key }

\* C1: after any sequence of update calls from a store without duplicate
\* keys, no two records have the same text compared case-insensitively, and
\* after an update exactly one record holds the updated text.
C1_OneRecordPerText ==
    /\ \A i, j \in 1..Len(store) : i # j => Key(store[i]) # Key(store[j])
    /\ (call.op = "update" /\ IsString(call.statement.text)) =>
          Cardinality(Holding(store, ToLowerCase(call.statement.text))) = 1

\* update was called again with a statement identical to the stored record
C1_Witness ==
    /\ call.op = "update"
    /\ call.old = Some(serialize(call.statement))
    /\ Cardinality(Holding(store, ToLowerCase(call.statement.text))) = 1

\* C2: an update whose text is already stored leaves exactly one record for
\* it, with the incoming fields (in_response_to among them) over the stored
\* ones and the other stored fields kept, and returns that record.
C2_UpsertLastWriteWins ==
    (call.op = "update" /\ call.existingIndex # 0) =>
        LET hits == Holding(store, ToLowerCase(call.statement.text))
            incoming == serialize(call.statement)
        IN  /\ Cardinality(hits) = 1
            /\ \A i \in hits :
                  /\ store[i].in_response_to = call.statement.in_response_to
                  /\ \A f \in DOMAIN incoming : store[i][f] = incoming[f]
                  /\ \A f \in (DOMAIN call.old[1]) \ (DOMAIN incoming) :
                        store[i][f] = call.old[1][f]
                  /\ call.ret = Some(store[i])

\* an update replaced one in_response_to by a different one
C2_Witness ==
    /\ call.op = "update"
    /\ call.existingIndex # 0
    /\ Truthy(call.old[1].in_response_to)
    /\ Truthy(call.statement.in_response_to)
    /\ call.old[1].in_response_to # call.statement.in_response_to
    /\ call.ret # None
    /\ call.ret[1].in_response_to = call.statement.in_response_to

\* C3: find returns the stored record whose text equals the query text
\* ignoring letter case, and null when no stored text matches or the query
\* text is missing or empty.
C3_FindCaseInsensitive ==
    call.op = "find" =>
        LET q == call.queryText
            matches == IF IsString(q) THEN Holding(store, ToLowerCase(q)) ELSE {}
        IN  IF ~IsString(q) \/ q = <<>>
            THEN call.ret = None
            ELSE /\ \A i \in matches : call.ret = Some(store[i])
                 /\ matches = {} => call.ret = None

\* find returned a record whose text differs from the query in letter case
C3_Witness ==
    /\ call.op = "find"
    /\ call.ret # None
    /\ call.ret[1].text # call.queryText
    /\ ToLowerCase(call.ret[1].text) = ToLowerCase(call.queryText)

\* C4: a completed turn with non-empty text t, after a turn with non-empty
\* text p, leaves a record keyed t with in_response_to = p and the intent of
\* the current turn.
C4_SequenceLinkStored ==
    ( /\ call.op = "getResponse"
      /\ call.path \in {"adopted", "default"}
      /\ call.previous # None
      /\ Truthy(call.statement.text)
      /\ Truthy(call.previous[1].text) ) =>
        \E i \in Holding(store, call.statement.text) :
            /\ store[i].in_response_to = call.previous[1].text
            /\ store[i].intent = call.statement.intent

\* The recorded calls of the scenarios
AskedFor(text) == [op |-> "getResponse", inputData |-> RawString(text)]
Corrected(o, c) ==
    [op |-> "learnCorrection", originalInputText |-> o, correctResponseText |-> c]

\* C5: from an empty store, after getResponse('Hello') and
\* getResponse('How are you'), getResponse('Hello') answers 'how are you'
\* with a confidence above the threshold, whatever the selection picks.
C5_EndToEndLearning ==
    trace = << AskedFor(Hello), AskedFor(HowAreYou), AskedFor(Hello) >> =>
        /\ call.ret # None
        /\ call.ret[1].text = howareyou
        /\ call.ret[1].confidence > confidenceThreshold

\* C6: from an empty store with no previous turn, learnCorrection(o, c) and
\* then getResponse(o) answers the preprocessed c, whatever intent the
\* classifier gives o.
C6_CorrectionThenAsk ==
    \A o \in OriginalInputs, c \in CorrectResponses :
        trace = << Corrected(o, c), AskedFor(o) >> =>
            /\ call.ret # None
            /\ call.ret[1].text = ToLowerCase(Trim(c))

\* The effect of learnCorrection(o, c) with the stored in_response_to given:
\* one record holds the key of the preprocessed c, with that in_response_to
\* and the intent classified for o; the records with another key and the
\* previous-turn state are as they were.
CorrectionUpserted(inResponseTo) ==
    LET c == ToLowerCase(Trim(call.correctResponseText))
        hits == Holding(store, c)
    IN  /\ Cardinality(hits) = 1
        /\ \A i \in hits :
              /\ store[i].text = c
              /\ store[i].in_response_to = inResponseTo
              /\ store[i].intent = call.intent
        /\ Len(store) = Len(call.before)
                          + (IF Holding(call.before, c) = {} THEN 1 ELSE 0)
        /\ \A i \in 1..Len(call.before) :
              Key(call.before[i]) # c => store[i] = call.before[i]
        /\ \A i \in 1..Len(store) : i \notin hits => i <= Len(call.before)
        /\ previous_statement = call.previous

\* C7 as stated: learnCorrection makes one upsert, keyed by the preprocessed
\* correct response, with in_response_to the preprocessed original input and
\* intent the intent classified for the original input; the records with
\* another key and the previous-turn state are as they were.
C7_CorrectionIsOneUpsert ==
    call.op = "learnCorrection" =>
        CorrectionUpserted(ToLowerCase(Trim(call.originalInputText)))

\* C7 as amended: the same, but the stored in_response_to is null when the
\* preprocessed original input is empty.
C7_CorrectionIsOneUpsertOrNull ==
    call.op = "learnCorrection" =>
        CorrectionUpserted(OrElse(ToLowerCase(Trim(call.originalInputText)),
                                  NullValue))

\* a correction overwrote the record of its key while another record and a
\* previous turn existed
C7_Witness ==
    /\ call.op = "learnCorrection"
    /\ call.previous # None
    /\ LET c == ToLowerCase(Trim(call.correctResponseText))
       IN  /\ \E i \in 1..Len(call.before) :
                 /\ Key(call.before[i]) = c
                 /\ call.before[i] # store[i]
           /\ \E i \in 1..Len(call.before) : Key(call.before[i]) # c

\* C8: getResponse never lets an error out: it returns a Statement, whose
\* confidence is 0 in the worst case.
C8_GetResponseNeverThrows ==
    call.op = "getResponse" =>
        /\ ~call.threw
        /\ call.ret # None
        /\ call.ret[1].confidence >= 0

\* C9: when an adapter's process raises, getResponse goes on as if that
\* adapter had abstained: it returns the response the other adapters'
\* results select.
C9_FailingAdapterAbstains ==
    (call.op = "getResponse" /\ call.raised) =>
        /\ ~call.threw
        /\ call.ret # None
        /\ LET abstained ==
                  [i \in 1..Len(call.outcomes) |->
                      IF call.outcomes[i].threw
                      THEN [call.outcomes[i] EXCEPT !.skipped = TRUE, !.threw = FALSE]
                      ELSE call.outcomes[i]]
               loop == AdapterLoop(abstained, 1, None, -10)
           IN  IF Selected(loop.bestMatch, loop.maxConfidence)
               THEN /\ call.ret[1].text = loop.bestMatch[1].response[1].text
                    /\ call.ret[1].confidence = loop.maxConfidence
               ELSE call.ret[1].confidence = 0

\* C10 as stated: a result is adopted only if its confidence is strictly
\* above the threshold, and one exactly at the threshold gives the default.
C10_StrictThreshold ==
    (call.op = "getResponse" /\ call.path \in {"adopted", "default"}) =>
        /\ call.path = "adopted" => call.maxConfidence > confidenceThreshold
        /\ call.maxConfidence = confidenceThreshold => call.path = "default"

\* C10 as amended: a result is adopted only if its confidence is at least
\* the threshold; a best result with a response and a confidence exactly at
\* the threshold is adopted, and one below the threshold gives the default.
C10_InclusiveThreshold ==
    (call.op = "getResponse" /\ call.path \in {"adopted", "default"}) =>
        /\ call.path = "adopted" => call.maxConfidence >= confidenceThreshold
        /\ ( /\ call.maxConfidence = confidenceThreshold
             /\ call.bestMatch # None
             /\ call.bestMatch[1].response # None ) => call.path = "adopted"
        /\ call.maxConfidence < confidenceThreshold => call.path = "default"

\* a best result whose confidence is exactly the threshold was adopted
C10_Witness ==
    /\ call.op = "getResponse"
    /\ call.path = "adopted"
    /\ call.maxConfidence = confidenceThreshold
    /\ call.ret[1].confidence = confidenceThreshold

\* C11: an adopted response has the greatest adapter confidence of the turn
\* as its confidence and the preprocessed input text as its in_response_to.
C11_AdoptedIsStamped ==
    (call.op = "getResponse" /\ call.path = "adopted") =>
        /\ \A i \in 1..Len(call.outcomes) :
              ~call.outcomes[i].skipped =>
                  call.outcomes[i].confidence <= call.ret[1].confidence
        /\ \E i \in 1..Len(call.outcomes) :
              /\ ~call.outcomes[i].skipped
              /\ call.outcomes[i].confidence = call.ret[1].confidence
        /\ call.ret[1].in_response_to = call.statement.text

\* The store after a turn differs from the store before it at most in the
\* record keyed by the input text
OnlyTheLinkChanged ==
    /\ Len(store) >= Len(call.before)
    /\ Len(store) <= Len(call.before) + 1
    /\ \A i \in 1..Len(call.before) :
          Key(call.before[i]) # call.statement.text => store[i] = call.before[i]
    /\ \A i \in 1..Len(store) :
          i > Len(call.before) => Key(store[i]) = call.statement.text
    /\ Holding(call.before, ToLowerCase(call.ret[1].text)) = {}
          => Holding(store, ToLowerCase(call.ret[1].text)) = {}

\* C12: on the default path the response has confidence 0 and the input
\* text as in_response_to, and the store changes at most in the sequence
\* link keyed by the input text; the default text is not stored.
C12_DefaultLearnsNothing ==
    (call.op = "getResponse" /\ call.path = "default") =>
        /\ call.ret[1].confidence = 0
        /\ call.ret[1].in_response_to = call.statement.text
        /\ OnlyTheLinkChanged

\* C13: on the non-default path the store ends with a record keyed by the
\* response's text whose intent is the input's intent and whose
\* in_response_to is the response's in_response_to.
C13_ResponseAssociationStored ==
    (call.op = "getResponse" /\ call.path = "adopted") =>
        \E i \in Holding(store, ToLowerCase(call.ret[1].text)) :
            /\ store[i].intent = call.statement.intent
            /\ store[i].in_response_to = call.ret[1].in_response_to

\* an adopted response was stored before under another intent
C13_Witness ==
    /\ call.op = "getResponse"
    /\ call.path = "adopted"
    /\ \E i \in Holding(call.before, ToLowerCase(call.ret[1].text)) :
          call.before[i].intent # call.statement.intent
    /\ \E i \in Holding(store, ToLowerCase(call.ret[1].text)) :
          store[i].intent = call.statement.intent

\* C14: while the bot is uninitialized getResponse returns the 'still
\* starting up' Statement with confidence 0 and changes nothing: no store
\* update, no change of the previous turn, no classifier or adapter call.
C14_StartingUpChangesNothing ==
    (call.op = "getResponse" /\ ~nlpReady) =>
        /\ call.ret # None
        /\ call.ret[1].text = StartingUpText
        /\ call.ret[1].confidence = 0
        /\ store = call.before
        /\ previous_statement = call.previous
        /\ call.classifier = "none"
        /\ call.outcomes = <<>>

\* an uninitialized bot with a correction already stored was asked
C14_Witness ==
    /\ call.op = "getResponse"
    /\ ~nlpReady
    /\ call.path = "starting_up"
    /\ store # <<>>

\* C15: on a ready bot an input whose preprocessed text is empty gets the
\* 'please provide input' Statement at once: no store update and no adapter
\* is asked.
C15_EmptyInputShortCircuits ==
    ( /\ call.op = "getResponse"
      /\ call.classifier # "none"
      /\ call.statement.text = <<>> ) =>
        /\ call.ret # None
        /\ call.ret[1].text = PleaseProvideInput
        /\ call.ret[1].confidence = 0
        /\ store = call.before
        /\ call.outcomes = <<>>

\* An input whose text is not a string
Malformed(inputData) ==
    \/ inputData.kind \notin {"string", "object"}
    \/ ~IsString(inputData.text)

\* C16: on a ready bot a malformed input is coerced to empty text and takes
\* the empty-text path; getResponse raises no error.
C16_MalformedInputCoerced ==
    (call.op = "getResponse" /\ nlpReady /\ Malformed(call.inputData)) =>
        /\ ~call.threw
        /\ call.ret # None
        /\ call.ret[1].text = PleaseProvideInput
        /\ store = call.before
        /\ call.outcomes = <<>>

\* C17: when the classifier is unavailable or raises, the input is taken as
\* intent 'unknown' with score 0 and no entities, and getResponse and
\* learnCorrection go on with that classification: the turn does not fail
\* for it.
C17_ClassifierFailureIsUnknown ==
    /\ ( /\ call.op = "getResponse"
         /\ call.classifier \in {"unavailable", "threw"} ) =>
            /\ call.statement.intent = DEFAULT_INTENT
            /\ call.statement.nlp_score = 0
            /\ call.statement.entities = <<>>
            /\ Len(call.outcomes) = Len(logicAdapters)
            /\ call.threw => call.raised
    /\ ( /\ call.op = "learnCorrection"
         /\ call.classifier \in {"unavailable", "threw"} ) =>
            /\ ~call.threw
            /\ call.intent = DEFAULT_INTENT
            /\ \E i \in Holding(store, ToLowerCase(Trim(call.correctResponseText))) :
                  store[i].intent = DEFAULT_INTENT

\* a turn whose classifier call raised was answered
C17_Witness ==
    /\ call.op = "getResponse"
    /\ call.classifier = "threw"
    /\ call.path = "default"
    /\ call.ret[1].in_response_to = call.statement.text

\* The replies the time adapter can synthesize
TimeReplies == { TheCurrentTimeIs \o timeString \o <<".">> : timeString \in TimeStrings }

\* C18: with the best-match and the time adapter both registered with their
\* default options, in either order and whatever the store holds, a turn of
\* a ready bot whose intent is 'ask_time' returns the time adapter's
\* synthesized response with confidence 1.0.
C18_TimeAdapterWins ==
    ( /\ call.op = "getResponse"
      /\ call.classifier # "none"
      /\ call.statement.intent = "ask_time" ) =>
        /\ call.path = "adopted"
        /\ call.ret[1].text \in TimeReplies
        /\ call.ret[1].intent = "inform_time"
        /\ call.ret[1].confidence = 10

\* the best-match adapter offered a learned time reply in an 'ask_time' turn
C18_Witness ==
    /\ call.op = "getResponse"
    /\ call.classifier # "none"
    /\ call.statement.intent = "ask_time"
    /\ call.ret[1].intent = "inform_time"
    /\ \E i \in 1..Len(call.outcomes) :
          /\ call.outcomes[i].confidence = 9
          /\ call.outcomes[i].response # None
          /\ call.outcomes[i].response[1].text \in TimeReplies

\* C19: filter with a null in_response_to, and more generally with an unset
\* or invalid field, returns the empty sequence and does not raise, whatever
\* the store holds.
C19_EmptyFilterIsEmpty ==
    ( /\ call.op = "filter"
      /\ ~IsString(call.query.in_response_to)
      /\ call.query.intent = NullIntent ) =>
        /\ ~call.threw
        /\ call.ret = <<>>

\* C20: filter({intent: i}) returns the stored records whose intent is i, in
\* store order, and the empty sequence when there is none.
C20_FilterByIntent ==
    ( /\ call.op = "filter"
      /\ call.query.in_response_to = NullValue
      /\ call.query.intent # NullIntent ) =>
        call.ret = SelectSeq(store,
                      LAMBDA stmtData : stmtData.intent = call.query.intent)

\* C21: update with a Statement whose text is missing or blank writes
\* nothing: the store is as before and update returns null.
C21_BlankTextNotStored ==
    (call.op = "update" /\ call.statement.text = <<>>) =>
        /\ store = call.before
        /\ call.ret = None

\* C23: deserialize(serialize(s)) has the text, in_response_to,
\* conversation, timestamp, intent and entities of s and confidence 0, and
\* no record written by update carries a confidence field.
C23_PersistedRoundTrip ==
    /\ call.op = "deserialize" =>
          /\ call.ret[1].text = call.statement.text
          /\ call.ret[1].in_response_to = call.statement.in_response_to
          /\ call.ret[1].conversation = call.statement.conversation
          /\ call.ret[1].timestamp = call.statement.timestamp
          /\ call.ret[1].intent = call.statement.intent
          /\ call.ret[1].entities = call.statement.entities
          /\ call.ret[1].confidence = 0
    /\ call.op = "update" =>
          /\ call.ret # None => "confidence" \notin DOMAIN call.ret[1]
          /\ \A i \in 1..Len(store) : "confidence" \notin DOMAIN store[i]

\* a Statement with a confidence and an older timestamp went through
C23_Witness ==
    /\ call.op = "deserialize"
    /\ call.statement.confidence = 9
    /\ call.statement.timestamp # Now
    /\ call.statement.entities # <<>>
    /\ call.ret[1].confidence = 0
    /\ call.ret[1].timestamp = call.statement.timestamp

\* C24: initialize on a bot whose classifier is ready loads nothing and
\* leaves the bot ready, and a ready bot stays ready through every
\* initialize, getResponse and learnCorrection call.
C24_InitializeIdempotent ==
    [][ /\ nlpReady => nlpReady'
        /\ (nlpIsReady /\ call'.op = "initialize") =>
              (~call'.loaded /\ ~call'.threw /\ nlpReady') ]_vars

\* initialize was called on a bot that was ready already
C24_Witness ==
    /\ call.op = "initialize"
    /\ ~call.loaded
    /\ nlpReady
    /\ store # <<>>

\* C28: from an empty store on a ready bot, getResponse('Hello') returns the
\* default response, and the getResponse('How are you') that follows returns
\* the default response too while the store learns that 'how are you'
\* follows 'hello'.
C28_LinkNotOfferedSameTurn ==
    /\ trace = << AskedFor(Hello) >> => call.path = "default"
    /\ trace = << AskedFor(Hello), AskedFor(HowAreYou) >> =>
          /\ call.path = "default"
          /\ \E i \in Holding(store, howareyou) :
                store[i].in_response_to = hello

\* The text keys of the stored records
KeysOf(statements) == { Key(statements[i]) : i \in 1..Len(statements) }

\* C25: no getResponse, learnCorrection, find, filter or update call on a
\* loaded store removes a text key: the set of keys, compared
\* case-insensitively, grows or stays as it is.
C25_KeysOnlyGrow ==
    [][KeysOf(store) \subseteq KeysOf(store')]_vars

\* an update overwrote one of several records, under a key written in
\* another case
C25_Witness ==
    /\ call.op = "update"
    /\ call.old # None
    /\ call.old[1].text # call.statement.text
    /\ Cardinality(KeysOf(store)) >= 2
    /\ KeysOf(call.before) = KeysOf(store)

\* The snapshot given to a write and its number, for the writes in
\* storage.order (0 is the write that creates the file)
SnapshotOf(w) == IF w = 0 THEN <<>> ELSE tasks[w].snapshot
SnapOf(w) == IF w = 0 THEN 1 ELSE tasks[w].snap
LastWrite == storage.order[Len(storage.order)]
NoWriteInFlight == \A t \in Tasks : tasks[t].pc \notin {"writing", "creating"}

\* C22: on first load a file that cannot be read or parsed gives an empty
\* cache, a missing file gives an empty cache and is created holding an empty
\* store, and no find, filter or update call raises for it.
C22_FirstLoadFallsBack ==
    /\ \A t \in Tasks : tasks[t].pc # "idle" => ~tasks[t].threw
    /\ storage.found # "none" => storage.data
    /\ storage.found \in {"unreadable", "corrupt", "invalid", "missing"} =>
          storage.loaded = <<>>
    /\ (storage.found = "missing" /\ storage.order = <<0>>) =>
          file = JsonFile(<<>>)
    /\ storage.found # "missing" => storage.creating = "no"

\* the find that triggered the load of a missing file has returned and the
\* file has been created
C22_Witness ==
    /\ storage.found = "missing"
    /\ storage.order = <<0>>
    /\ file = JsonFile(<<>>)
    /\ tasks[1].pc = "done"
    /\ tasks[1].call.op = "find"
    /\ tasks[1].awaits = 1
    /\ tasks[1].ret = None

\* C26: update calls are not serialized and an insert can be lost in the
\* file: when two overlapping updates insert different keys and the write of
\* the one that took its snapshot first completes last, the file holds that
\* snapshot, which lacks the record the other inserted, while the cache and
\* the later snapshot hold both records.
C26_InsertLostInFile ==
    \A a, b \in Tasks :
        ( /\ a # b
          /\ tasks[a].pc = "done" /\ tasks[a].call.op = "update"
          /\ tasks[b].pc = "done" /\ tasks[b].call.op = "update"
          /\ tasks[a].inserted /\ tasks[b].inserted
          /\ tasks[a].snap < tasks[b].snap
          /\ storage.order # <<>>
          /\ LastWrite = a ) =>
            /\ Key(tasks[b].call.statement) \notin KeysOf(file.statements)
            /\ Key(tasks[b].call.statement) \notin KeysOf(tasks[a].snapshot)
            /\ Key(tasks[a].call.statement) \in KeysOf(tasks[b].snapshot)
            /\ { Key(tasks[a].call.statement), Key(tasks[b].call.statement) }
                  \subseteq KeysOf(store)

\* both writes were in flight together and completed in the other order
C26_Witness ==
    /\ storage.order = <<2, 1>>
    /\ tasks[1].pc = "done" /\ tasks[1].call.op = "update" /\ tasks[1].inserted
    /\ tasks[2].pc = "done" /\ tasks[2].call.op = "update" /\ tasks[2].inserted
    /\ tasks[1].snap < tasks[2].snap
    /\ Len(store) = 2
    /\ Len(file.statements) = 1

\* C29: however many calls start before the cache is populated, the file is
\* read at most once; a call that arrives while the load is in flight awaits
\* that load, goes on only when it has settled, and every call goes on with
\* the one cache object, whatever the load found.
C29_FirstLoadGuard ==
    /\ storage.reads <= 1
    /\ storage.generation <= 1
    /\ \A t \in Tasks : tasks[t].pc # "idle" =>
          /\ (~tasks[t].arrived.data /\ tasks[t].arrived.loading) =>
                (tasks[t].awaited /\ tasks[t].awaits # t)
          /\ tasks[t].pc = "awaiting" => storage.loadPromise = tasks[t].awaits
          /\ (tasks[t].awaited /\ tasks[t].pc # "awaiting") =>
                (storage.loadPromise = 0 /\ storage.data)
          /\ tasks[t].got # 0 => tasks[t].got = storage.generation

\* three calls started before the cache was populated, two of them awaiting
\* the load of the first, have all gone on after the file was found missing
C29_Witness ==
    /\ storage.found = "missing"
    /\ storage.reads = 1
    /\ \A t \in Tasks : tasks[t].pc \in {"writing", "done"} /\ tasks[t].got = 1
    /\ \A t \in Tasks \ {1} : tasks[t].awaited /\ tasks[t].awaits = 1

\* C30: a write puts the whole snapshot taken from the cache in the file: once
\* no write is in flight the file holds the snapshot of the write that
\* completed last, which is the cache itself when it was the last snapshot
\* taken, and an earlier snapshot, without the records added since, when not.
C30_LastWriteWins ==
    (NoWriteInFlight /\ storage.order # <<>>) =>
        /\ file = JsonFile(SnapshotOf(LastWrite))
        /\ SnapOf(LastWrite) = storage.snaps => file.statements = store
        /\ KeysOf(file.statements) \subseteq KeysOf(store)

\* three updates overlapped; the write that completed last carried the first
\* snapshot, and the file lacks records the cache holds
C30_Witness ==
    /\ NoWriteInFlight
    /\ \A t \in Tasks : tasks[t].pc = "done"
    /\ Len(storage.order) >= 2
    /\ SnapOf(LastWrite) < storage.snaps
    /\ KeysOf(file.statements) # KeysOf(store)
    /\ file.statements # <<>>

\* The getResponse calls that have read previous_statement, and those that
\* have returned a response
HasRead(t) == tasks[t].pc \in {"responding", "associating", "done"}
Returned(t) == tasks[t].pc = "done" /\ ~tasks[t].threw
LinkedTo(text, inResponseTo) ==
    \E i \in Holding(store, text) : store[i].in_response_to = inResponseTo

\* C27: overlapping getResponse calls race on previous_statement: two calls
\* that both read it before either has set it store links to the same
\* earlier turn and neither to the other, and previous_statement is the
\* input of whichever call returned last.
C27_OverlappingTurnsRace ==
    /\ \A a, b \in Tasks :
          ( /\ a # b
            /\ HasRead(a) /\ HasRead(b)
            /\ tasks[a].linked /\ tasks[b].linked
            /\ tasks[a].previous = tasks[b].previous
            /\ tasks[a].statement.text # tasks[b].statement.text
            /\ \A c \in Tasks \ {a, b} : tasks[c].pc \in {"idle", "classifying"} ) =>
              /\ LinkedTo(tasks[a].statement.text, tasks[a].previous[1].text)
              /\ LinkedTo(tasks[b].statement.text, tasks[a].previous[1].text)
              /\ ~LinkedTo(tasks[a].statement.text, tasks[b].statement.text)
              /\ ~LinkedTo(tasks[b].statement.text, tasks[a].statement.text)
    /\ \A t \in Tasks :
          ( /\ Returned(t)
            /\ \A u \in Tasks : Returned(u) => tasks[u].finished <= tasks[t].finished ) =>
              previous_statement = Some(tasks[t].statement)

\* 'Hello' and then 'How are you' were asked while the earlier turn was
\* 'Hi'; both are linked to 'hi', and the call that began first returned
\* last and left its input as the previous turn
C27_Witness ==
    /\ tasks[1].pc = "done" /\ tasks[2].pc = "done"
    /\ tasks[1].statement.text = hello
    /\ tasks[2].statement.text = howareyou
    /\ tasks[1].previous = Some(EarlierTurn)
    /\ tasks[2].previous = Some(EarlierTurn)
    /\ LinkedTo(hello, hi)
    /\ LinkedTo(howareyou, hi)
    /\ tasks[2].finished < tasks[1].finished
    /\ previous_statement = Some(tasks[1].statement)

\* The adapters of the last getResponse whose process was invoked and returned
Answered(outcomes) ==
    { i \in 1..Len(outcomes) : ~outcomes[i].skipped /\ ~outcomes[i].threw }

\* C31: getResponse invokes process on the adapters whose canProcess is true
\* for the input, and on no other, in list order, and keeps the result with
\* the greatest confidence, the earliest in the list among equals.
C31_EarliestMaximumKept ==
    (call.op = "getResponse" /\ call.path \in {"adopted", "default"}) =>
        /\ Len(call.outcomes) = Len(logicAdapters)
        /\ \A i \in 1..Len(call.outcomes) :
              call.outcomes[i].skipped <=> ~canProcess(logicAdapters[i], call.statement)
        /\ IF Answered(call.outcomes) = {}
           THEN call.bestMatch = None
           ELSE \E k \in Answered(call.outcomes) :
                  /\ call.bestMatch = Some(call.outcomes[k])
                  /\ call.maxConfidence = call.outcomes[k].confidence
                  /\ \A j \in Answered(call.outcomes) :
                        /\ call.outcomes[j].confidence <= call.outcomes[k].confidence
                        /\ j < k => call.outcomes[j].confidence
                                       < call.outcomes[k].confidence

\* the time adapter was passed over and the two best-match adapters answered
\* with the same confidence and different statements: the first was kept
C31_Witness ==
    /\ call.op = "getResponse"
    /\ call.path = "adopted"
    /\ Len(call.outcomes) = 3
    /\ call.outcomes[1].skipped
    /\ Answered(call.outcomes) = {2, 3}
    /\ call.outcomes[2].confidence = call.outcomes[3].confidence
    /\ call.outcomes[2].response # call.outcomes[3].response
    /\ call.bestMatch = Some(call.outcomes[2])
    /\ call.ret[1].text = call.outcomes[2].response[1].text

\* The step in which the getResponse call of task t returns a response
Returns(t) == tasks[t].pc # "done" /\ Returned(t)'

\* C32: previous_statement is assigned in the step in which a getResponse
\* call that ran selection returns, after its link, its adapters and its
\* response association are done, and in no other step; it is then that
\* turn's preprocessed and classified input.
C32_PreviousAdvancesLast ==
    [][ /\ previous_statement' # previous_statement =>
              \E t \in Tasks : Returns(t)
        /\ \A t \in Tasks : Returns(t) =>
              /\ previous_statement' = Some(tasks'[t].statement)
              /\ tasks'[t].statement.text =
                    preprocess(NewStatement(tasks'[t].inputData)).text
              /\ tasks'[t].statement.intent # NullIntent
              /\ tasks[t].pc \in {"responding", "associating"}
              /\ tasks[t].linked =>
                    Holding(store, tasks[t].statement.text) # {}
              /\ tasks[t].pc = "associating" =>
                    Holding(store, tasks[t].ret[1].text) # {} ]_vars

\* a turn that stored its link and its response association has returned and
\* is the previous turn, while the other call has not begun
C32_Witness ==
    /\ tasks[1].pc = "done"
    /\ tasks[1].linked
    /\ tasks[1].ret # None
    /\ tasks[1].ret[1].intent # "default_response"
    /\ tasks[2].pc = "idle"
    /\ previous_statement = Some(tasks[1].statement)
    /\ previous_statement # tasks[1].previous

\* What process returns when it has nothing to offer
NoResponse == [response |-> None, confidence |-> 0]

\* The last process call returned one of its candidates, with the confidence
\* fixed by the intent alone
CandidateReturned ==
    /\ call.ret.response # None
    /\ \E i \in 1..Len(Candidates(call.filtered.data)) :
          Candidates(call.filtered.data)[i] = call.ret.response[1]
    /\ call.ret.confidence =
          IF call.statement.intent = DEFAULT_INTENT THEN 3 ELSE 9

\* C33: BestMatchLogicAdapter.process never raises; it returns a null
\* response with confidence 0 when the storage query fails or no candidate
\* with a non-empty text exists, and in every other case a candidate, with
\* confidence 0.3 for the 'unknown' intent and 0.9 otherwise.
C33_BestMatchResult ==
    call.op = "process" =>
        /\ ~call.threw
        /\ IF call.filtered.threw \/ Candidates(call.filtered.data) = <<>>
           THEN call.ret = NoResponse
           ELSE CandidateReturned

\* C33 as it holds: an input statement without an intent is a third case
\* in which process returns a null response with confidence 0.
C33_BestMatchResultWithIntent ==
    call.op = "process" =>
        /\ ~call.threw
        /\ IF \/ call.filtered.threw
              \/ Candidates(call.filtered.data) = <<>>
              \/ call.statement.intent \in {NullIntent, ""}
           THEN call.ret = NoResponse
           ELSE CandidateReturned

\* the second of two candidates was returned for a recognised intent, a
\* record with an empty text being stored as well
C33_Witness ==
    /\ call.op = "process"
    /\ Len(call.filtered.data) = 3
    /\ Len(Candidates(call.filtered.data)) = 2
    /\ call.ret.response = Some(Candidates(call.filtered.data)[2])
    /\ call.ret.confidence = 9

\* C34: when update merges onto a stored record, an incoming in_response_to
\* or intent that is not null replaces the stored one and an incoming null
\* leaves the stored one in place.
C34_NullDoesNotClear ==
    (call.op = "update" /\ call.existingIndex # 0) =>
        \A i \in Holding(store, ToLowerCase(call.statement.text)) :
            /\ store[i].in_response_to =
                  IF call.statement.in_response_to = NullValue
                  THEN call.old[1].in_response_to
                  ELSE call.statement.in_response_to
            /\ store[i].intent =
                  IF call.statement.intent = NullIntent
                  THEN call.old[1].intent
                  ELSE call.statement.intent

\* The update calls that have gone through the cache, skipped ones left out
Upserted(t) ==
    /\ tasks[t].pc \in {"writing", "done"}
    /\ tasks[t].call.op = "update"
    /\ IsString(tasks[t].call.statement.text)

\* C35: however concurrent update calls interleave, the cache holds exactly
\* one record for the key of every update that has gone through it, and no
\* two records with the same key: no insert is lost in memory and none is
\* doubled.
C35_CacheKeepsEveryUpsert ==
    /\ \A t \in Tasks : Upserted(t) =>
          Cardinality(Holding(store, Key(tasks[t].call.statement))) = 1
    /\ \A i, j \in 1..Len(store) : i # j => Key(store[i]) # Key(store[j])

\* three updates that awaited one load of a missing file have returned, two
\* of them for the same key: the cache holds the two keys once each
C35_Witness ==
    /\ storage.found = "missing"
    /\ \A t \in Tasks : tasks[t].pc = "done" /\ Upserted(t)
    /\ \A t \in Tasks \ {1} : tasks[t].awaited
    /\ tasks[1].call.statement.text = tasks[3].call.statement.text
    /\ tasks[1].call.statement.text # tasks[2].call.statement.text
    /\ Len(store) = 2

\* The updates whose write failed: they stored a record, their write has
\* settled and is not among the writes that reached the file
WriteFailed(t) ==
    /\ tasks[t].pc = "done"
    /\ tasks[t].call.op = "update"
    /\ tasks[t].snap # 0
    /\ \A i \in 1..Len(storage.order) : storage.order[i] # t

\* Task u returns from find or filter in this step
Answers(u) == tasks[u].pc = "ready" /\ tasks'[u].pc = "done"

\* C36: when the write of an update fails the update does not raise and the
\* cache is not rolled back: the call returns the record as if it were
\* stored, the cache keeps it, and a find or filter that runs afterwards
\* returns it although the file was not written.
C36_FailedWriteKeepsChange ==
    [][\A t \in Tasks :
         /\ (tasks[t].pc = "writing" /\ WriteFailed(t)') =>
               /\ ~tasks'[t].threw
               /\ tasks'[t].ret # None
               /\ tasks'[t].ret = tasks[t].ret
               /\ Key(tasks'[t].ret[1]) = Key(tasks[t].call.statement)
               /\ store' = store
               /\ file' = file
               /\ Holding(store', Key(tasks[t].call.statement)) # {}
         /\ \A u \in Tasks :
              (WriteFailed(t) /\ Answers(u)) =>
                 /\ (tasks[u].call.op = "find"
                       /\ ToLowerCase(tasks[u].call.text)
                             = Key(tasks[t].call.statement)) =>
                       /\ tasks'[u].ret # None
                       /\ Key(tasks'[u].ret[1]) = Key(tasks[t].call.statement)
                 /\ tasks[u].call.op = "filter" =>
                       \E i \in 1..Len(tasks'[u].ret) :
                          Key(tasks'[u].ret[i]) = Key(tasks[t].call.statement)
    ]_vars

\* the file was missing and is created empty, the one update of 'Hello'
\* returned its record although its write failed, and the find that was
\* called after it had returned found the record the file does not hold
C36_Witness ==
    /\ storage.found = "missing"
    /\ WriteFailed(1)
    /\ tasks[1].call.statement.text = Hello
    /\ ~tasks[1].threw
    /\ tasks[1].ret # None
    /\ tasks[2].pc = "done"
    /\ tasks[2].call.op = "find"
    /\ tasks[2].arrived.data
    /\ tasks[2].ret # None
    /\ tasks[3].pc = "idle"
    /\ file.kind = "json"
    /\ Holding(file.statements, hello) = {}
    /\ Holding(store, hello) # {}

\* C37: a turn of a ready bot whose preprocessed text is empty leaves
\* previous_statement as it was, so that the next turn still links to the
\* last input that was not empty.
C37_EmptyTurnKeepsPrevious ==
    [][( /\ call'.op = "getResponse"
         /\ call'.path \in {"adopted", "default"}
         /\ call'.statement.text = <<>> ) =>
            previous_statement' = previous_statement]_vars

\* C38: after any sequence of getResponse and learnCorrection calls from an
\* empty store every stored record has a text that is neither null nor
\* empty.
C38_StoredTextNeverBlank ==
    \A i \in 1..Len(store) :
       /\ IsString(store[i].text)
       /\ store[i].text # <<>>

\* C39: with the default configuration (threshold 0.4, unknown-intent
\* confidence 0.3) and Best-Match the only adapter, a turn of a ready bot
\* whose input is classified 'unknown' returns the default response whatever
\* the store holds, and stores nothing but the sequence link: no
\* response-to-intent upsert.
C39_UnknownIntentGetsDefault ==
    ( /\ call.op = "getResponse"
      /\ call.path \in {"adopted", "default"}
      /\ call.statement.intent = DEFAULT_INTENT ) =>
        /\ call.path = "default"
        /\ call.ret[1].text = DefaultText(call.statement)
        /\ call.ret[1].intent = "default_response"
        /\ call.ret[1].confidence = 0
        /\ store = IF call.previous # None
                   THEN learnInputSequence(call.before, call.statement,
                                           call.previous[1])
                   ELSE call.before

\* a turn classified 'unknown' for which Best-Match found a candidate and
\* answered it with its unknown-intent confidence: the default is returned
C39_Witness ==
    /\ call.op = "getResponse"
    /\ call.path = "default"
    /\ call.statement.intent = DEFAULT_INTENT
    /\ Len(call.outcomes) = 1
    /\ ~call.outcomes[1].skipped
    /\ call.outcomes[1].response # None
    /\ call.outcomes[1].confidence = 3
    /\ call.outcomes[1].confidence < confidenceThreshold

=============================================================================
